---- MODULE Spec2Model ----
(***************************************************************************)
(* A model of the Cypress MCP server: the CypressMCPConnector (project     *)
(* validation, spec listing, test runs, spec creation) and the             *)
(* CypressMCPServer message loop that dispatches to it.                    *)
(*                                                                         *)
(* Text is a sequence of one-character strings, so that endswith, join and *)
(* the kernel's path walk are computed the way the code computes them.     *)
(* The filesystem is a function from absolute normalised paths (sequences  *)
(* of component names) to entries; the root directory is <<>>.             *)
(***************************************************************************)
EXTENDS Integers, Sequences, FiniteSets, TLC

VARIABLES
  fs,          \* the filesystem: node path -> [kind, mode, content]
  cwd,         \* the process working directory (a node path), os.getcwd()
  projectPath, \* CypressMCPConnector.project_path, as given to the constructor
  accessor,    \* "none" before construction, "ok" once built, "failed" if __init__ raised
  child,       \* the test-runner child process subprocess.run is blocked on, or NoChild
  last,        \* the outcome of the latest direct call of a connector method
  written,     \* ghost: node -> the contents successfully written to it, in order
  writesOk,    \* ghost: no create_test_file call has failed so far
  ncalls,      \* number of direct calls and requests issued so far
  inbox,       \* per connection: frames received and not yet taken by the loop
  pending,     \* per connection: the envelope the handler is about to send
  sent,        \* per connection: the latest frame sent, with the request it answers
  nsent,       \* per connection: how many frames have been sent
  taken,       \* per connection: how many messages the loop has taken
  loop,        \* per connection: "running", or "ended" once an exception left the loop
  cwd0,        \* ghost: the working directory the process started in
  workflow     \* the client's ClaudeMCPConnector.run_tests call: its position and values

vars == <<fs, cwd, projectPath, accessor, child, last, written, writesOk, ncalls,
          inbox, pending, sent, nsent, taken, loop, cwd0, workflow>>

-----------------------------------------------------------------------------
(* Bounds *)

\* the number of direct calls (SpecAccessor) or of requests (Spec) in a run
MaxCalls == 2
\* the number of client connections
NConn == 2

Conns == 1..NConn

-----------------------------------------------------------------------------
(* Text *)

SEP == "/"
S_cypress == <<"c","y","p","r","e","s","s">>
S_e2e == <<"e","2","e">>
S_fixtures == <<"f","i","x","t","u","r","e","s">>
S_integration == <<"i","n","t","e","g","r","a","t","i","o","n">>
S_cypress_e2e == S_cypress \o <<SEP>> \o S_e2e
S_cypress_fixtures == S_cypress \o <<SEP>> \o S_fixtures
CY_JS == <<".","c","y",".","j","s">>
CY_TS == <<".","c","y",".","t","s">>

\* str.endswith
EndsWith(s, suf) ==
  /\ Len(s) >= Len(suf)
  /\ SubSeq(s, Len(s) - Len(suf) + 1, Len(s)) = suf

\* str.startswith
StartsWith(s, pre) ==
  /\ Len(s) >= Len(pre)
  /\ SubSeq(s, 1, Len(pre)) = pre

\* one step of posixpath.join: an absolute component discards what precedes it
PathJoin2(path, b) ==
  IF StartsWith(b, <<SEP>>) THEN b
  ELSE IF path = <<>> \/ EndsWith(path, <<SEP>>) THEN path \o b
  ELSE path \o <<SEP>> \o b

RECURSIVE PathJoinFrom(_, _)
PathJoinFrom(path, rest) ==
  IF rest = <<>> THEN path
  ELSE PathJoinFrom(PathJoin2(path, Head(rest)), Tail(rest))

\* os.path.join(a, *p)
PathJoin(parts) == PathJoinFrom(Head(parts), Tail(parts))

\* sep.join(items)
RECURSIVE StrJoin(_, _)
StrJoin(sep, items) ==
  IF items = <<>> THEN <<>>
  ELSE IF Len(items) = 1 THEN items[1]
  ELSE items[1] \o sep \o StrJoin(sep, Tail(items))

\* the components of a path string, split at every "/"
RECURSIVE SplitFrom(_, _, _)
SplitFrom(s, cur, acc) ==
  IF s = <<>> THEN Append(acc, cur)
  ELSE IF Head(s) = SEP THEN SplitFrom(Tail(s), <<>>, Append(acc, cur))
  ELSE SplitFrom(Tail(s), Append(cur, Head(s)), acc)

Split(s) == SplitFrom(s, <<>>, <<>>)

-----------------------------------------------------------------------------
(* The filesystem, as the kernel resolves paths *)

DirEntry(mode) == [kind |-> "dir", mode |-> mode, content |-> ""]
FileEntry(c) == [kind |-> "file", mode |-> "rw", content |-> c]

\* no node: the walk failed (ENOENT, ENOTDIR)
NoPath == << <<>> >>

Exists(f, p) == p = <<>> \/ p \in DOMAIN f
IsDir(f, p) == p = <<>> \/ (p \in DOMAIN f /\ f[p].kind = "dir")
IsFile(f, p) == p \in DOMAIN f /\ f[p].kind = "file"
Parent(p) == IF p = <<>> THEN <<>> ELSE SubSeq(p, 1, Len(p) - 1)

\* one component of a path walk from directory p
StepTo(p, comp) ==
  IF comp = <<>> \/ comp = <<".">> THEN p
  ELSE IF comp = <<".", ".">> THEN Parent(p)
  ELSE Append(p, comp)

\* walk comps from p: every component but the last must lead to a directory
RECURSIVE Walk(_, _, _)
Walk(f, p, comps) ==
  IF ~IsDir(f, p) THEN NoPath
  ELSE IF comps = <<>> THEN p
  ELSE IF Len(comps) = 1 THEN
    IF comps[1] = <<>> \/ comps[1] = <<".">> \/ comps[1] = <<".", ".">>
    THEN StepTo(p, comps[1])
    ELSE Append(p, comps[1])
  ELSE Walk(f, StepTo(p, Head(comps)), Tail(comps))

\* the node a path string names for a process whose working directory is wd;
\* the node itself need not exist, the directories on the way must
Lookup(f, wd, s) ==
  IF s = <<>> THEN NoPath
  ELSE Walk(f, IF StartsWith(s, <<SEP>>) THEN <<>> ELSE wd, Split(s))

\* the absolute path string of a node
RECURSIVE AbsPath(_)
AbsPath(p) ==
  IF p = <<>> THEN <<SEP>>
  ELSE IF Len(p) = 1 THEN <<SEP>> \o p[1]
  ELSE AbsPath(Parent(p)) \o <<SEP>> \o p[Len(p)]

\* os.path.exists
PathExists(f, wd, s) ==
  LET n == Lookup(f, wd, s) IN n # NoPath /\ Exists(f, n)

\* the names in a directory node
Children(f, d) == {p[Len(p)] : p \in {q \in DOMAIN f : Len(q) > 0 /\ Parent(q) = d}}

\* every order in which a directory's names can be enumerated
Orderings(S) ==
  {o \in [1..Cardinality(S) -> S] : \A i, j \in 1..Cardinality(S) : o[i] = o[j] => i = j}

-----------------------------------------------------------------------------
(* Python values and call outcomes *)

Null == [t |-> "null"]
Str(v) == [t |-> "str", v |-> v]
Num(n) == [t |-> "num", v |-> n]
List(items) == [t |-> "list", v |-> items]
Dict(d) == [t |-> "dict", v |-> d]
EmptyDict == [k \in {} |-> Null]

IsStr(x) == x.t = "str"

Raise(exc) == [raised |-> TRUE, exc |-> exc]
Return(v) == [raised |-> FALSE, value |-> v]

\* {**a, **b}: the keys of b override those of a
Merge(a, b) == b @@ a

\* dict.get(key, default)
Get(d, key, default) == IF key \in DOMAIN d THEN d[key] ELSE default

\* bool(x) for the values a JSON message can carry
Truthy(x) ==
  CASE x.t = "str" -> x.v # <<>>
    [] x.t = "list" -> x.v # <<>>
    [] x.t = "num" -> x.v # 0
    [] OTHER -> FALSE

-----------------------------------------------------------------------------
(* CypressMCPConnector *)

required_dirs == <<S_cypress, S_cypress_e2e, S_cypress_fixtures>>

\* validate_project_structure: raises when a required path does not exist
ValidateProjectStructure(f, wd, pp) ==
  IF \E i \in 1..Len(required_dirs) :
       ~PathExists(f, wd, PathJoin(<<pp, required_dirs[i]>>))
  THEN Raise("ValueError")
  ELSE Return(Null)

\* the suffix test of list_available_tests and create_test_file
HasSpecSuffix(name) == EndsWith(name, CY_JS) \/ EndsWith(name, CY_TS)

\* the comprehension of list_available_tests over one enumeration of the directory
TestFiles(names) ==
  LET kept == SelectSeq(names, HasSpecSuffix)
  IN [i \in 1..Len(kept) |-> PathJoin(<<S_cypress, S_e2e, kept[i]>>)]

\* list_available_tests: the outcomes os.listdir allows (its order is the
\* filesystem's choice)
ListAvailableTests(f, wd, pp) ==
  LET integration_path == PathJoin(<<pp, S_cypress, S_e2e>>)
      d == Lookup(f, wd, integration_path)
  IN IF d = NoPath \/ ~Exists(f, d) THEN {Raise("FileNotFoundError")}
     ELSE IF ~IsDir(f, d) THEN {Raise("NotADirectoryError")}
     ELSE {Return(TestFiles(o)) : o \in Orderings(Children(f, d))}

\* the name create_test_file gives the file
ResolvedName(filename) ==
  IF ~EndsWith(filename, CY_JS) /\ ~EndsWith(filename, CY_TS)
  THEN filename \o CY_JS
  ELSE filename

\* the path create_test_file opens
TestFilePath(pp, filename) ==
  PathJoin(<<pp, S_cypress, S_integration, ResolvedName(filename)>>)

\* open(file_path, 'a'): an existing file keeps its content
OpenForWrite_Append(f, wd, path) ==
  LET n == Lookup(f, wd, path)
  IN IF n = NoPath \/ n = <<>> THEN [ok |-> FALSE, exc |-> "FileNotFoundError", fs |-> f, node |-> NoPath]
     ELSE IF IsDir(f, n) THEN [ok |-> FALSE, exc |-> "IsADirectoryError", fs |-> f, node |-> NoPath]
     ELSE IF ~IsFile(f, n) /\ Parent(n) # <<>> /\ f[Parent(n)].mode = "ro"
       THEN [ok |-> FALSE, exc |-> "PermissionError", fs |-> f, node |-> NoPath]
     ELSE [ok |-> TRUE, exc |-> "", node |-> n,
           fs |-> IF IsFile(f, n) THEN f ELSE (n :> FileEntry("")) @@ f]

\* open(file_path, 'x'): an existing file is an error
OpenForWrite_Exclusive(f, wd, path) ==
  LET n == Lookup(f, wd, path)
  IN IF n = NoPath \/ n = <<>> THEN [ok |-> FALSE, exc |-> "FileNotFoundError", fs |-> f, node |-> NoPath]
     ELSE IF Exists(f, n) THEN [ok |-> FALSE, exc |-> "FileExistsError", fs |-> f, node |-> NoPath]
     ELSE IF Parent(n) # <<>> /\ f[Parent(n)].mode = "ro"
       THEN [ok |-> FALSE, exc |-> "PermissionError", fs |-> f, node |-> NoPath]
     ELSE [ok |-> TRUE, exc |-> "", fs |-> (n :> FileEntry("")) @@ f, node |-> n]

\* open(file_path, 'w'): the node created or truncated, or the error raised
OpenForWrite(f, wd, path) ==
  LET n == Lookup(f, wd, path)
  IN IF n = NoPath \/ n = <<>> THEN [ok |-> FALSE, exc |-> "FileNotFoundError", fs |-> f, node |-> NoPath]
     ELSE IF IsDir(f, n) THEN [ok |-> FALSE, exc |-> "IsADirectoryError", fs |-> f, node |-> NoPath]
     ELSE IF ~IsFile(f, n) /\ Parent(n) # <<>> /\ f[Parent(n)].mode = "ro"
       THEN [ok |-> FALSE, exc |-> "PermissionError", fs |-> f, node |-> NoPath]
     ELSE [ok |-> TRUE, exc |-> "", fs |-> (n :> FileEntry("")) @@ f, node |-> n]

\* f.write(content) on the file just opened, and its close
FileWrite(f, node, text) == (node :> FileEntry(f[node].content \o text)) @@ f

\* a write whose error leaves create_test_file
WriteFailure_Raises(exc, f) == [out |-> Raise(exc), fs |-> f, node |-> NoPath]

\* the except clause of create_test_file
WriteFailure(exc, f) ==
  [out |-> Return([success |-> FALSE, error |-> exc]), fs |-> f, node |-> NoPath]

\* create_test_file: the returned dict (or the exception raised before the
\* try block), the filesystem afterwards and the node written
CreateTestFile(f, wd, pp, filename, content) ==
  IF ~IsStr(filename)
  THEN [out |-> Raise("AttributeError"), fs |-> f, node |-> NoPath]
  ELSE
    LET file_path == TestFilePath(pp, filename.v)
        o == OpenForWrite(f, wd, file_path)
    IN IF ~o.ok
       THEN WriteFailure(o.exc, f)
       ELSE IF ~IsStr(content)
       THEN WriteFailure("TypeError", o.fs)
       ELSE [out |-> Return([success |-> TRUE, file_path |-> file_path]),
             fs |-> FileWrite(o.fs, o.node, content.v), node |-> o.node]

-----------------------------------------------------------------------------
(* run_cypress_tests *)

NoChild == [running |-> FALSE]

\* ','.join(test_specs): a list of strings is joined, a string is joined
\* character by character, anything else raises TypeError
SpecArg(x) ==
  IF x.t = "list" /\ \A i \in 1..Len(x.v) : IsStr(x.v[i])
  THEN Return(StrJoin(<<",">>, [i \in 1..Len(x.v) |-> x.v[i].v]))
  ELSE IF x.t = "str"
  THEN Return(StrJoin(<<",">>, [i \in 1..Len(x.v) |-> <<x.v[i]>>]))
  ELSE Raise("TypeError")

\* cypress_cmd
CypressCmd(browser, spec) ==
  <<"npx", "cypress", "run", "--browser", browser, "--spec", spec>>

\* a run that lists the spec directory whatever specs it was given
SpecsToRun_ListAlways(f, wd, pp, test_specs) ==
  {IF o.raised THEN o
   ELSE Return(List([i \in 1..Len(o.value) |-> Str(o.value[i])]))
     : o \in ListAvailableTests(f, wd, pp)}

\* what test_specs is after the `if not test_specs` statement
SpecsToRun(f, wd, pp, test_specs) ==
  IF ~Truthy(test_specs)
  THEN {IF o.raised THEN o
        ELSE Return(List([i \in 1..Len(o.value) |-> Str(o.value[i])]))
          : o \in ListAvailableTests(f, wd, pp)}
  ELSE {Return(test_specs)}

\* what the except clause of run_cypress_tests returns
RunFailure(exc) == [success |-> FALSE, error |-> exc]

\* the ways subprocess.run can fail to start the child
SpawnErrors == {"FileNotFoundError", "PermissionError"}

\* an exception of the statements before the try block leaves the call
RaisedBeforeTry(exc, wd) == [kind |-> "raise", stage |-> "specs", exc |-> exc, cwd |-> wd]

\* os.chdir(self.project_path) raised: the except clause returns, nothing changed
ChdirFailed(wd) ==
  [kind |-> "return", stage |-> "chdir", value |-> RunFailure("FileNotFoundError"),
   cwd |-> wd]

\* a spawn error that leaves run_cypress_tests
SpawnFailed_Raises(exc, root) ==
  [kind |-> "raise", stage |-> "spawn", exc |-> exc, cwd |-> root]

\* subprocess.run raised after os.chdir succeeded: the except clause returns
\* from inside the project root
SpawnFailed(exc, root) ==
  [kind |-> "return", stage |-> "spawn", value |-> RunFailure(exc), cwd |-> root]

\* subprocess.run started the child in the project root and waits for it
Spawned(cmd, original_dir, root) ==
  [kind |-> "spawn", stage |-> "spawn", cwd |-> root,
   child |-> [running |-> TRUE, cmd |-> cmd, original_dir |-> original_dir]]

\* run_cypress_tests up to the point where subprocess.run has started the
\* child: the call raises, returns early, or blocks on the child
RunCypressTests(f, wd, pp, test_specs, browser) ==
  UNION {
    IF s.raised
    THEN {RaisedBeforeTry(s.exc, wd)}
    ELSE
      LET arg == SpecArg(s.value)
      IN IF arg.raised
         THEN {RaisedBeforeTry(arg.exc, wd)}
         ELSE
           LET cypress_cmd == CypressCmd(browser, arg.value)
               original_dir == wd
               root == Lookup(f, wd, pp)
           IN IF root = NoPath \/ ~IsDir(f, root)
              THEN {ChdirFailed(wd)}
              ELSE IF ~IsStr(browser)
              THEN {SpawnFailed("TypeError", root)}
              ELSE {SpawnFailed(e, root) : e \in SpawnErrors}
                   \cup {Spawned(cypress_cmd, original_dir, root)}
    : s \in SpecsToRun(f, wd, pp, test_specs)}

ExitCodes == {0, 1}

\* run_cypress_tests from the return of subprocess.run: the result dict and
\* the working directory afterwards. Output that is not text in the locale's
\* encoding makes subprocess.run raise after the child has exited.
RunFinish(f, wd, ch, rc, decodable) ==
  IF ~decodable
  THEN [stage |-> "decode", value |-> RunFailure("UnicodeDecodeError"), cwd |-> wd]
  ELSE IF ~IsDir(f, ch.original_dir)
  THEN [stage |-> "restore", value |-> RunFailure("FileNotFoundError"), cwd |-> wd]
  ELSE [stage |-> "exit", value |-> [success |-> rc = 0, stdout |-> "out", stderr |-> "err",
                   return_code |-> rc],
        cwd |-> ch.original_dir]

-----------------------------------------------------------------------------
(* The filesystems and inputs the model starts from *)

N_w == <<"w">>
N_p == <<"p">>
\* the directory the process is started in, and the project root inside it
StartDir == <<N_w>>
Root == <<N_w, N_p>>
CypressDir == Append(Root, S_cypress)
E2eDir == Append(CypressDir, S_e2e)
FixturesDir == Append(CypressDir, S_fixtures)
IntegrationDir == Append(CypressDir, S_integration)

\* the project root given as an absolute path, or relative to the start directory
ProjectPaths == {AbsPath(Root), N_p}

EmptyFs == [n \in {} |-> DirEntry("rw")]

Put(n, k) ==
  CASE k = "absent" -> EmptyFs
    [] k = "file" -> n :> FileEntry("")
    [] k = "dir" -> n :> DirEntry("rw")
    [] k = "rodir" -> n :> DirEntry("ro")

N_a_cy_js == <<"a">> \o CY_JS
N_b_cy_ts == <<"b">> \o CY_TS
N_n_txt == <<"n", ".", "t", "x", "t">>
N_d_cy_js == <<"d">> \o CY_JS
N_i_cy_ts == <<"i">> \o CY_TS

\* what cypress/e2e may hold: two specs, a text file, and a directory with a
\* spec suffix in its name that holds a spec of its own
E2eEntry(name) ==
  IF name = N_d_cy_js
  THEN (Append(E2eDir, name) :> DirEntry("rw"))
       @@ (Append(Append(E2eDir, name), N_i_cy_ts) :> FileEntry(""))
  ELSE Append(E2eDir, name) :> FileEntry("")

E2eNames == {N_a_cy_js, N_b_cy_ts, N_n_txt, N_d_cy_js}

RECURSIVE E2eContent(_)
E2eContent(names) ==
  IF names = {} THEN EmptyFs
  ELSE LET n == CHOOSE x \in names : TRUE
       IN E2eEntry(n) @@ E2eContent(names \ {n})

BaseFs == (StartDir :> DirEntry("rw")) @@ (Root :> DirEntry("rw"))

Kinds == {"absent", "file", "dir"}

\* project roots that differ in which of the required paths exist and as what
StructureLayouts ==
  {BaseFs @@ Put(CypressDir, k) : k \in {"absent", "file"}}
  \cup
  {BaseFs @@ Put(CypressDir, "dir") @@ Put(E2eDir, e) @@ Put(FixturesDir, x)
     @@ Put(IntegrationDir, "dir") @@ (IF e = "dir" THEN E2eEntry(N_a_cy_js) ELSE EmptyFs)
     : e \in Kinds, x \in Kinds}

\* complete project roots that differ in what cypress/integration is
IntegrationLayouts ==
  {BaseFs @@ Put(CypressDir, "dir") @@ Put(E2eDir, "dir") @@ Put(FixturesDir, "dir")
     @@ Put(IntegrationDir, i) @@ E2eEntry(N_a_cy_js)
     : i \in {"absent", "file", "rodir"}}

\* complete project roots that differ in what cypress/e2e holds
ContentLayouts ==
  {BaseFs @@ Put(CypressDir, "dir") @@ Put(E2eDir, "dir") @@ Put(FixturesDir, "dir")
     @@ Put(IntegrationDir, "dir") @@ E2eContent(names)
     : names \in SUBSET E2eNames}

StandardLayout ==
  BaseFs @@ Put(CypressDir, "dir") @@ Put(E2eDir, "dir") @@ Put(FixturesDir, "dir")
    @@ Put(IntegrationDir, "dir") @@ E2eContent({N_a_cy_js, N_n_txt})

Layouts == StructureLayouts \cup IntegrationLayouts \cup ContentLayouts

S_a == <<"a">>
S_c_js == <<"c", ".", "j", "s">>
S_abs_t == <<SEP, "w", SEP, "t">>
S_up_u == <<".", ".", SEP, "u">>
S_e2e_a == PathJoin(<<S_cypress, S_e2e, N_a_cy_js>>)
S_e2e_b == PathJoin(<<S_cypress, S_e2e, N_b_cy_ts>>)

\* (filename, content) arguments of a write. Filenames: no suffix, either
\* suffix, a near miss, an absolute path, a path through "..", no string at
\* all; contents: two texts and no text
WriteArgs ==
  {<<Str(S_a), Str("X")>>, <<Str(S_a), Str("Y")>>, <<Str(S_a), Null>>,
   <<Str(N_a_cy_js), Str("X")>>, <<Str(N_a_cy_js), Str("Y")>>,
   <<Str(N_b_cy_ts), Str("X")>>, <<Str(S_c_js), Str("Y")>>,
   <<Str(S_abs_t), Str("X")>>, <<Str(S_up_u), Str("Y")>>, <<Null, Str("X")>>}

\* (specs, browser) arguments of a run
RunArgs ==
  {<<Null, Str("chrome")>>,
   <<List(<<>>), Str("firefox")>>,
   <<List(<<Str(S_e2e_a)>>), Str("chrome")>>,
   <<List(<<Str(S_e2e_b), Str(S_e2e_a)>>), Str("chrome")>>,
   <<List(<<Num(5)>>), Str("chrome")>>,
   <<List(<<Str(S_e2e_a)>>), Null>>}

NoCall == [op |-> "none"]

\* before ClaudeMCPConnector.run_tests is called
NoWorkflow == [pc |-> "idle", recvd |-> 0]

InitCommon ==
  /\ cwd = StartDir
  /\ cwd0 = StartDir
  /\ child = NoChild
  /\ last = NoCall
  /\ written = [n \in {} |-> <<>>]
  /\ writesOk = TRUE
  /\ ncalls = 0
  /\ inbox = [c \in Conns |-> <<>>]
  /\ pending = [c \in Conns |-> <<>>]
  /\ sent = [c \in Conns |-> <<>>]
  /\ nsent = [c \in Conns |-> 0]
  /\ taken = [c \in Conns |-> 0]
  /\ loop = [c \in Conns |-> "running"]
  /\ workflow = NoWorkflow

\* before CypressMCPConnector(project_path) is called
InitAccessor ==
  /\ InitCommon
  /\ accessor = "none"
  /\ \/ fs \in Layouts /\ projectPath = AbsPath(Root)
     \/ fs = StandardLayout /\ projectPath \in ProjectPaths

-----------------------------------------------------------------------------
(* Direct calls of the connector's methods *)

protocolVars == <<inbox, pending, sent, nsent, taken, loop>>

\* a constructor that creates the required directories it does not find
Construct_Mkdirs ==
  /\ accessor = "none"
  /\ accessor' = "ok"
  /\ fs' = [n \in {CypressDir, E2eDir, FixturesDir} \ DOMAIN fs |-> DirEntry("rw")] @@ fs
  /\ last' = [op |-> "construct", out |-> Return(Null)]
  /\ UNCHANGED <<cwd, projectPath, child, written, writesOk, ncalls, cwd0, workflow, protocolVars>>

\* CypressMCPConnector.__init__
Construct ==
  /\ accessor = "none"
  /\ LET o == ValidateProjectStructure(fs, cwd, projectPath)
     IN /\ accessor' = IF o.raised THEN "failed" ELSE "ok"
        /\ last' = [op |-> "construct", out |-> o]
  /\ UNCHANGED <<fs, cwd, projectPath, child, written, writesOk, ncalls, cwd0, workflow, protocolVars>>

CanCall == accessor = "ok" /\ child = NoChild /\ ncalls < MaxCalls

CallList ==
  /\ CanCall
  /\ \E o \in ListAvailableTests(fs, cwd, projectPath) :
       last' = [op |-> "list", out |-> o, conn |-> 0, req |-> 0]
  /\ ncalls' = ncalls + 1
  /\ UNCHANGED <<fs, cwd, projectPath, accessor, child, written, writesOk, cwd0, workflow, protocolVars>>

\* the ghost record of writes after a create_test_file call that wrote
\* content to node (NoPath: it did not succeed)
WrittenAfter(node, content) ==
  IF node = NoPath THEN written
  ELSE IF node \in DOMAIN written
  THEN [written EXCEPT ![node] = Append(@, content.v)]
  ELSE (node :> <<content.v>>) @@ written

WriteOk(r) == ~r.out.raised /\ r.out.value.success

CallWrite(filename, content) ==
  /\ CanCall
  /\ LET r == CreateTestFile(fs, cwd, projectPath, filename, content)
     IN /\ fs' = r.fs
        /\ last' = [op |-> "write", filename |-> filename, content |-> content,
                    out |-> r.out, node |-> r.node, conn |-> 0, req |-> 0]
        /\ written' = WrittenAfter(r.node, content)
        /\ writesOk' = (writesOk /\ WriteOk(r))
  /\ ncalls' = ncalls + 1
  /\ UNCHANGED <<cwd, projectPath, accessor, child, cwd0, workflow, protocolVars>>

CallRun(test_specs, browser) ==
  /\ CanCall
  /\ \E r \in RunCypressTests(fs, cwd, projectPath, test_specs, browser) :
       /\ cwd' = r.cwd
       /\ child' = IF r.kind = "spawn"
                   THEN r.child @@ [conn |-> 0, cwdBefore |-> cwd, req |-> 0]
                   ELSE NoChild
       /\ last' = CASE r.kind = "spawn" -> [op |-> "running"]
                    [] r.kind = "raise" ->
                         [op |-> "run", out |-> Raise(r.exc), cwdBefore |-> cwd,
                          stage |-> r.stage, conn |-> 0, req |-> 0]
                    [] r.kind = "return" ->
                         [op |-> "run", out |-> Return(r.value), cwdBefore |-> cwd,
                          stage |-> r.stage, conn |-> 0, req |-> 0]
  /\ ncalls' = ncalls + 1
  /\ UNCHANGED <<fs, projectPath, accessor, written, writesOk, cwd0, workflow, protocolVars>>

\* the child exits and a directly called run_cypress_tests returns
ChildExitDirect ==
  /\ child.running /\ child.conn = 0
  /\ \E rc \in ExitCodes, decodable \in BOOLEAN :
       LET r == RunFinish(fs, cwd, child, rc, decodable)
       IN /\ cwd' = r.cwd
          /\ last' = [op |-> "run", out |-> Return(r.value),
                      cwdBefore |-> child.cwdBefore, stage |-> r.stage,
                      conn |-> 0, req |-> 0, rc |-> rc]
  /\ child' = NoChild
  /\ UNCHANGED <<fs, projectPath, accessor, written, writesOk, ncalls, cwd0, workflow, protocolVars>>

NextAccessor ==
  \/ Construct
  \/ CallList
  \/ \E a \in WriteArgs : CallWrite(a[1], a[2])
  \/ \E a \in RunArgs : CallRun(a[1], a[2])
  \/ ChildExitDirect

SpecAccessor == InitAccessor /\ [][NextAccessor]_vars

-----------------------------------------------------------------------------
(* CypressMCPServer *)

\* json.loads(message): text that is not JSON raises
JsonLoads(message) ==
  IF message.wire = "garbage" THEN Raise("JSONDecodeError") ELSE Return(message.data)

\* the exception classes the model raises; all derive from Exception
ExceptionClasses ==
  {"JSONDecodeError", "AttributeError", "TypeError", "ValueError", "FileNotFoundError",
   "NotADirectoryError", "IsADirectoryError", "PermissionError", "UnicodeDecodeError"}

\* a handler that catches decoding errors only
Caught_DecodeOnly(exc) == exc = "JSONDecodeError"

\* `except Exception as e`
Caught(exc) == exc \in ExceptionClasses

\* the envelope of the except clause
ErrorEnvelope(exc) == [type |-> "error", message |-> exc]

\* how the body of the try block ends for one message: it reaches
\* websocket.send with a response, raises, or blocks on the child
Respond(frame, f, wd, call, wr) ==
  [kind |-> "send", frame |-> frame, fs |-> f, cwd |-> wd, call |-> call, wr |-> wr]
Raised(exc, f, wd, call, wr) ==
  [kind |-> "raise", exc |-> exc, fs |-> f, cwd |-> wd, call |-> call, wr |-> wr]
Blocked(ch, f, wd) ==
  [kind |-> "spawn", child |-> ch, fs |-> f, cwd |-> wd, call |-> [op |-> "running"],
   wr |-> [node |-> NoPath]]

NoWrite == [node |-> NoPath]

\* the list_tests branch
ListTests(f, wd, pp, tag) ==
  {LET call == [op |-> "list", out |-> o] @@ tag
   IN IF o.raised THEN Raised(o.exc, f, wd, call, NoWrite)
      ELSE Respond([type |-> "test_list", tests |-> o.value], f, wd, call, NoWrite)
   : o \in ListAvailableTests(f, wd, pp)}

\* the envelope of the run_tests branch
TestResults(result) == Merge([type |-> "test_results"], result)

\* the run_tests branch
RunTests(f, wd, pp, d, tag) ==
  {LET call == [op |-> "run", cwdBefore |-> wd, stage |-> r.stage] @@ tag
   IN CASE r.kind = "raise" ->
             Raised(r.exc, f, r.cwd, [out |-> Raise(r.exc)] @@ call, NoWrite)
        [] r.kind = "return" ->
             Respond(TestResults(r.value), f, r.cwd, [out |-> Return(r.value)] @@ call,
                     NoWrite)
        [] r.kind = "spawn" ->
             Blocked(r.child @@ [cwdBefore |-> wd] @@ tag, f, r.cwd)
   : r \in RunCypressTests(f, wd, pp, Get(d, "specs", Null),
                           Get(d, "browser", Str("chrome")))}

\* the create_test branch
CreateTest(f, wd, pp, d, tag) ==
  LET filename == Get(d, "filename", Null)
      content == Get(d, "content", Null)
      r == CreateTestFile(f, wd, pp, filename, content)
      call == [op |-> "write", filename |-> filename, content |-> content,
               out |-> r.out, node |-> r.node] @@ tag
      wr == [node |-> r.node, content |-> content, failed |-> ~(~r.out.raised /\ r.out.value.success)]
  IN IF r.out.raised THEN {Raised(r.out.exc, r.fs, wd, call, wr)}
     ELSE {Respond(Merge([type |-> "test_creation"], r.out.value), r.fs, wd, call, wr)}

\* a response that names the unknown type
InitialResponse_Typed == [type |-> "unknown_type"]

\* `response = {}`
InitialResponse == EmptyDict

\* the body of the try block of handle_message for one message
TryBody(message, f, wd, pp, tag) ==
  LET dec == JsonLoads(message)
  IN IF dec.raised THEN {Raised(dec.exc, f, wd, last, NoWrite)}
     ELSE IF dec.value.t # "dict" THEN {Raised("AttributeError", f, wd, last, NoWrite)}
     ELSE
       LET msg_data == dec.value.v
           type == Get(msg_data, "type", Null)
       IN CASE type = Str("list_tests") -> ListTests(f, wd, pp, tag)
            [] type = Str("run_tests") -> RunTests(f, wd, pp, msg_data, tag)
            [] type = Str("create_test") -> CreateTest(f, wd, pp, msg_data, tag)
            [] OTHER -> {Respond(InitialResponse, f, wd, last, NoWrite)}

\* a loop that takes the next message while the previous response is unsent
LoopReady_Pipelined(c) ==
  /\ accessor = "ok"
  /\ ~child.running
  /\ loop[c] = "running"
  /\ inbox[c] # <<>>

\* a loop that goes on while a child runs, as if the run were handed to a
\* worker thread
LoopReady_Threaded(c) ==
  /\ accessor = "ok"
  /\ loop[c] = "running"
  /\ pending[c] = <<>>
  /\ inbox[c] # <<>>

\* the loop of a connection takes its next message only when it is not
\* suspended in a send, and no coroutine runs while subprocess.run blocks
LoopReady(c) ==
  /\ accessor = "ok"
  /\ ~child.running
  /\ loop[c] = "running"
  /\ pending[c] = <<>>
  /\ inbox[c] # <<>>

\* what a connection is about to send for request n
Entry(n, message, raised, frame) ==
  [req |-> n, msg |-> message, raised |-> raised, frame |-> frame]

\* one iteration of `async for message in websocket`, up to the await of
\* websocket.send (or up to the blocking subprocess.run)
HandleMessage(c) ==
  /\ LoopReady(c)
  /\ LET message == Head(inbox[c])
         n == taken[c] + 1
     IN \E o \in TryBody(message, fs, cwd, projectPath, [conn |-> c, req |-> n]) :
          /\ fs' = o.fs
          /\ cwd' = o.cwd
          /\ last' = o.call
          /\ child' = IF o.kind = "spawn" THEN o.child @@ [msg |-> message] ELSE NoChild
          /\ written' = IF o.wr = NoWrite THEN written
                        ELSE WrittenAfter(o.wr.node, o.wr.content)
          /\ writesOk' = (writesOk /\ (o.wr = NoWrite \/ ~o.wr.failed))
          /\ pending' = [pending EXCEPT ![c] =
               CASE o.kind = "send" -> <<Entry(n, message, FALSE, o.frame)>>
                 [] o.kind = "raise" /\ Caught(o.exc) ->
                      <<Entry(n, message, TRUE, ErrorEnvelope(o.exc))>>
                 [] OTHER -> <<>>]
          /\ loop' = [loop EXCEPT ![c] =
               IF o.kind = "raise" /\ ~Caught(o.exc) THEN "ended" ELSE @]
          /\ inbox' = [inbox EXCEPT ![c] = Tail(@)]
          /\ taken' = [taken EXCEPT ![c] = n]
  /\ UNCHANGED <<projectPath, accessor, ncalls, sent, nsent, cwd0, workflow>>

\* subprocess.run returns in the handler of the connection that started the
\* child; the handler reaches websocket.send
ChildExit ==
  /\ child.running /\ child.conn # 0
  /\ \E rc \in ExitCodes, decodable \in BOOLEAN :
       LET r == RunFinish(fs, cwd, child, rc, decodable)
           c == child.conn
       IN /\ cwd' = r.cwd
          /\ last' = [op |-> "run", out |-> Return(r.value),
                      cwdBefore |-> child.cwdBefore, stage |-> r.stage,
                      conn |-> c, req |-> child.req, rc |-> rc]
          /\ pending' = [pending EXCEPT ![c] =
               <<Entry(child.req, child.msg, FALSE, TestResults(r.value))>>]
  /\ child' = NoChild
  /\ UNCHANGED <<fs, projectPath, accessor, written, writesOk, ncalls, inbox, sent,
                 nsent, taken, loop, cwd0, workflow>>

\* `await websocket.send(...)` completes: the frame is on the connection
SendResponse(c) ==
  /\ ~child.running
  /\ pending[c] # <<>>
  /\ sent' = [sent EXCEPT ![c] = <<Head(pending[c])>>]
  /\ nsent' = [nsent EXCEPT ![c] = @ + 1]
  /\ pending' = [pending EXCEPT ![c] = <<>>]
  /\ UNCHANGED <<fs, cwd, projectPath, accessor, child, last, written, writesOk, ncalls,
                 inbox, taken, loop, cwd0, workflow>>

\* a client puts a frame on its connection
ClientSend(c, message) ==
  /\ ncalls < MaxCalls
  /\ loop[c] = "running"
  /\ inbox' = [inbox EXCEPT ![c] = Append(@, message)]
  /\ ncalls' = ncalls + 1
  /\ UNCHANGED <<fs, cwd, projectPath, accessor, child, last, written, writesOk,
                 pending, sent, nsent, taken, loop, cwd0, workflow>>

Json(d) == [wire |-> "json", data |-> d]

M_garbage == [wire |-> "garbage"]
M_array == Json(List(<<>>))
M_list == Json(Dict([type |-> Str("list_tests")]))
M_bogus == Json(Dict([type |-> Str("bogus")]))
M_notype == Json(Dict(EmptyDict))
M_run_all == Json(Dict([type |-> Str("run_tests")]))
M_run_one ==
  Json(Dict([type |-> Str("run_tests"), specs |-> List(<<Str(S_e2e_a)>>),
             browser |-> Str("firefox")]))
M_run_bad == Json(Dict([type |-> Str("run_tests"), specs |-> List(<<Num(5)>>)]))
M_create(filename, content) ==
  Json(Dict([type |-> Str("create_test"), filename |-> filename, content |-> content]))
M_create_noname == Json(Dict([type |-> Str("create_test"), content |-> Str("X")]))

\* the requests the protocol names
Messages ==
  {M_list, M_run_all,
   M_create(Str(S_a), Str("X")), M_create(Str(N_a_cy_js), Str("Y"))}

\* frames that are not JSON, not an object, of no known type, or that make
\* their handler raise, next to one that is served
ErrorMessages ==
  {M_garbage, M_array, M_bogus, M_notype, M_create_noname, M_run_bad, M_list}

\* create_test requests
CreateMessages ==
  {M_create(Str(S_a), Str("X")), M_create(Str(N_a_cy_js), Str("Y")),
   M_create(Str(S_a), Null), M_create(Str(S_abs_t), Str("X")),
   M_create(Str(S_up_u), Str("Y")), M_create_noname, M_list}

ServerLayout(i) ==
  BaseFs @@ Put(CypressDir, "dir") @@ Put(E2eDir, "dir") @@ Put(FixturesDir, "dir")
    @@ Put(IntegrationDir, i) @@ E2eContent({N_a_cy_js, N_n_txt, N_d_cy_js})

\* after CypressMCPServer(project_path) returned, for a complete project
\* root given as an absolute or as a relative path
Init ==
  /\ InitCommon
  /\ accessor = "ok"
  /\ fs = ServerLayout("dir")
  /\ projectPath \in ProjectPaths

\* after CypressMCPServer(project_path) returned, also for a project root
\* without cypress/integration and for one whose cypress/integration is not
\* writable
InitLayouts ==
  /\ InitCommon
  /\ accessor = "ok"
  /\ \/ fs = ServerLayout("dir") /\ projectPath \in ProjectPaths
     \/ fs \in {ServerLayout("absent"), ServerLayout("rodir")}
        /\ projectPath = AbsPath(Root)

Next ==
  \/ \E c \in Conns, message \in Messages : ClientSend(c, message)
  \/ \E c \in Conns : HandleMessage(c)
  \/ \E c \in Conns : SendResponse(c)
  \/ ChildExit

Spec == Init /\ [][Next]_vars

\* the server under frames it cannot serve
NextErrors ==
  \/ \E c \in Conns, message \in ErrorMessages : ClientSend(c, message)
  \/ \E c \in Conns : HandleMessage(c)
  \/ \E c \in Conns : SendResponse(c)

SpecErrors == InitLayouts /\ [][NextErrors]_vars

\* the server under create_test requests
NextCreate ==
  \/ \E c \in Conns, message \in CreateMessages : ClientSend(c, message)
  \/ \E c \in Conns : HandleMessage(c)
  \/ \E c \in Conns : SendResponse(c)

SpecCreate == InitLayouts /\ [][NextCreate]_vars

S_up_e2e_b == <<".", ".", SEP>> \o S_e2e \o <<SEP>> \o N_b_cy_ts

\* two specs in an order of the caller's, and a browser
M_run_two ==
  Json(Dict([type |-> Str("run_tests"),
             specs |-> List(<<Str(S_e2e_b), Str(S_e2e_a)>>),
             browser |-> Str("firefox")]))

\* run_tests requests without specs and browser, and with specs and a browser,
\* next to a listing and to a create_test that puts a new spec where
\* list_available_tests looks
RunMessages ==
  {M_list, M_run_all, M_run_two, M_create(Str(S_up_e2e_b), Str("X"))}

\* a complete project root that holds a directory of its own name
NestedLayout == StandardLayout @@ (Append(Root, N_p) :> DirEntry("rw"))

\* after CypressMCPServer(project_path) returned, also for a relative project
\* path that names a directory inside the project root as well
InitRun ==
  /\ InitCommon
  /\ accessor = "ok"
  /\ \/ fs = StandardLayout /\ projectPath \in ProjectPaths
     \/ fs = NestedLayout /\ projectPath = N_p

\* the server under run_tests requests
NextRun ==
  \/ \E c \in Conns, message \in RunMessages : ClientSend(c, message)
  \/ \E c \in Conns : HandleMessage(c)
  \/ \E c \in Conns : SendResponse(c)
  \/ ChildExit

SpecRun == InitRun /\ [][NextRun]_vars

-----------------------------------------------------------------------------
(* ClaudeMCPConnector: the client's generate-and-run workflow *)

Uppers ==
  <<"A","B","C","D","E","F","G","H","I","J","K","L","M",
    "N","O","P","Q","R","S","T","U","V","W","X","Y","Z">>
Lowers ==
  <<"a","b","c","d","e","f","g","h","i","j","k","l","m",
    "n","o","p","q","r","s","t","u","v","w","x","y","z">>
Digits == {"0","1","2","3","4","5","6","7","8","9"}

\* the characters \w matches
WordChars == {Lowers[i] : i \in 1..26} \cup {Uppers[i] : i \in 1..26} \cup Digits \cup {"_"}

\* str.lower
Lower(s) ==
  [i \in 1..Len(s) |->
     IF \E k \in 1..26 : Uppers[k] = s[i]
     THEN Lowers[CHOOSE k \in 1..26 : Uppers[k] = s[i]]
     ELSE s[i]]

\* re.sub(r"\W+", "_", s): every maximal run of non-word characters becomes "_"
RECURSIVE ReSubNonWord(_, _)
ReSubNonWord(s, inRun) ==
  IF s = <<>> THEN <<>>
  ELSE IF Head(s) \in WordChars THEN <<Head(s)>> \o ReSubNonWord(Tail(s), FALSE)
  ELSE IF inRun THEN ReSubNonWord(Tail(s), TRUE)
  ELSE <<"_">> \o ReSubNonWord(Tail(s), TRUE)

\* the filename of the create_test request
GeneratedFilename(test_description) ==
  <<"g","e","n","e","r","a","t","e","d","_">>
    \o ReSubNonWord(Lower(test_description), FALSE)
    \o <<".","s","p","e","c",".","j","s">>

\* the characters of s as one text
RECURSIVE Text(_)
Text(s) == IF s = <<>> THEN "" ELSE Head(s) \o Text(Tail(s))

\* generate_test_from_description: the template with the description in it
GenerateTestFromDescription(description) ==
  "describe('Generated Test: " \o Text(description) \o "', ...)"

\* json.dumps(frame) as websocket.recv() returns it: a str
JsonDumps(frame) == [t |-> "str", json |-> frame]

\* x.get(key, default): dicts have the method, str has not
MethodGet(x, key, default) ==
  IF x.t = "dict" THEN Return(Get(x.v, key, default)) ELSE Raise("AttributeError")

\* the run_tests request of the workflow
M_run_created(file_path) ==
  Json(Dict([type |-> Str("run_tests"), specs |-> List(<<Str(file_path)>>)]))

\* the connection websockets.connect opens for the workflow
WfConn == 1

D_log_in == <<"L","o","g"," ","i","n">>
D_a_bang == <<"a","!","?">>
Descriptions == {D_log_in, D_a_bang}

\* run_tests up to the first recv: connect, generate, send create_test
RunTestsStart(test_description) ==
  /\ workflow.pc = "idle"
  /\ loop[WfConn] = "running"
  /\ LET test_script == GenerateTestFromDescription(test_description)
         request == M_create(Str(GeneratedFilename(test_description)), Str(test_script))
     IN /\ inbox' = [inbox EXCEPT ![WfConn] = Append(@, request)]
        /\ workflow' = [pc |-> "await_creation", recvd |-> 0,
                        description |-> test_description, request |-> request]
  /\ UNCHANGED <<fs, cwd, projectPath, accessor, child, last, written, writesOk, ncalls,
                 pending, sent, nsent, taken, loop, cwd0>>

\* a recv of run_tests returns: after the first, the workflow reads file_path
\* off the response and sends run_tests; after the second, it returns the
\* response. An exception leaves the `async with` block and run_tests; either
\* way the connection is closed on the way out.
RunTestsRecv ==
  /\ workflow.pc \in {"await_creation", "await_results"}
  /\ nsent[WfConn] > workflow.recvd
  /\ LET response == JsonDumps(sent[WfConn][1].frame)
         here == [workflow EXCEPT !.recvd = @ + 1]
     IN IF workflow.pc = "await_creation"
        THEN LET g == MethodGet(response, "file_path", <<>>)
             IN IF g.raised
                THEN /\ workflow' = [pc |-> "raised", exc |-> g.exc,
                                     creation_response |-> response] @@ here
                     /\ loop' = [loop EXCEPT ![WfConn] = "closed"]
                     /\ UNCHANGED inbox
                ELSE /\ workflow' = [pc |-> "await_results", specs |-> <<g.value>>,
                                     creation_response |-> response] @@ here
                     /\ inbox' = [inbox EXCEPT ![WfConn] =
                                    Append(@, M_run_created(g.value))]
                     /\ UNCHANGED loop
        ELSE /\ workflow' = [pc |-> "returned", test_results |-> response] @@ here
             /\ loop' = [loop EXCEPT ![WfConn] = "closed"]
             /\ UNCHANGED inbox
  /\ UNCHANGED <<fs, cwd, projectPath, accessor, child, last, written, writesOk, ncalls,
                 pending, sent, nsent, taken, cwd0>>

\* what the clients of the other connections send meanwhile
OtherMessages == {M_run_all}

\* the server with the workflow on one connection and clients on the others
NextWorkflow ==
  \/ \E d \in Descriptions : RunTestsStart(d)
  \/ RunTestsRecv
  \/ \E c \in Conns \ {WfConn}, message \in OtherMessages : ClientSend(c, message)
  \/ \E c \in Conns : HandleMessage(c)
  \/ \E c \in Conns : SendResponse(c)
  \/ ChildExit

SpecWorkflow == InitLayouts /\ [][NextWorkflow]_vars

-----------------------------------------------------------------------------
(* Properties *)

\* the entries a connection has about to be sent or has sent last
Entries(c) ==
  {pending[c][i] : i \in 1..Len(pending[c])} \cup {sent[c][i] : i \in 1..Len(sent[c])}

\* the type field of an envelope, "" when it has none
FrameType(frame) == IF "type" \in DOMAIN frame THEN frame.type ELSE ""

IsErrorEnvelope(frame) ==
  /\ DOMAIN frame = {"type", "message"}
  /\ frame.type = "error"
  /\ frame.message \in ExceptionClasses

\* every message taken has one frame: sent, about to be sent, or awaited from
\* the child; frames go out in the order of the requests
OneFramePerMessage(c) ==
  /\ taken[c] = nsent[c] + Len(pending[c])
                 + (IF child.running /\ child.conn = c THEN 1 ELSE 0)
  /\ Len(pending[c]) <= 1
  /\ pending[c] # <<>> => pending[c][1].req = nsent[c] + 1
  /\ sent[c] # <<>> => sent[c][1].req = nsent[c]

\* C1: every call of run_cypress_tests leaves the working directory as it
\* found it, so the server's working directory is always the one it started
\* in while no child runs.
C1_CwdRestored ==
  /\ last.op = "run" => cwd = last.cwdBefore
  /\ ~child.running => cwd = cwd0

\* frames whose body is not JSON, or whose handler is bound to raise
RaisingMessages == {M_garbage, M_array, M_create_noname, M_run_bad}

\* C2: a message that is not JSON or whose handler raises is answered with
\* exactly one error envelope on its connection, and the connection's loop
\* goes on.
C2_ErrorEnvelope ==
  \A c \in Conns :
    /\ loop[c] = "running"
    /\ OneFramePerMessage(c)
    /\ \A e \in Entries(c) :
         (e.raised \/ e.msg \in RaisingMessages) => IsErrorEnvelope(e.frame)

\* C2 witness: a frame that is not JSON was answered with an error envelope and
\* the next message on the connection is being answered with the test list.
C2_Witness ==
  \E c \in Conns :
    /\ sent[c] # <<>> /\ sent[c][1].msg = M_garbage /\ sent[c][1].req = 1
    /\ IsErrorEnvelope(sent[c][1].frame)
    /\ pending[c] # <<>> /\ pending[c][1].req = 2
    /\ FrameType(pending[c][1].frame) = "test_list"

\* a JSON object whose type is missing or names no request
Unrecognized(message) ==
  /\ message.wire = "json"
  /\ message.data.t = "dict"
  /\ Get(message.data.v, "type", Null)
       \notin {Str("list_tests"), Str("run_tests"), Str("create_test")}

\* C3 as claimed: no frame is ever sent for a message of unrecognized type.
C3_NothingSent ==
  \A c \in Conns : \A e \in Entries(c) : ~Unrecognized(e.msg)

\* C3: a JSON object of missing or unrecognized type is answered with exactly
\* one frame, the empty object, and the connection's loop goes on.
C3_EmptyObjectSent ==
  \A c \in Conns :
    /\ loop[c] = "running"
    /\ OneFramePerMessage(c)
    /\ \A e \in Entries(c) : Unrecognized(e.msg) => (e.frame = EmptyDict /\ ~e.raised)

\* C3 witness: a message without a type was answered with the empty object
\* and the next message on the connection is being answered with the test list.
C3_Witness ==
  \E c \in Conns :
    /\ sent[c] # <<>> /\ sent[c][1].msg = M_notype /\ sent[c][1].req = 1
    /\ sent[c][1].frame = EmptyDict
    /\ pending[c] # <<>> /\ pending[c][1].req = 2
    /\ FrameType(pending[c][1].frame) = "test_list"

\* the type field of a request
TypeOf(message) == Get(message.data.v, "type", Null)

\* the envelope type that answers a request type
Answers(frame, message) ==
  \/ IsErrorEnvelope(frame)
  \/ /\ "type" \in DOMAIN frame
     /\ frame.type = CASE TypeOf(message) = Str("list_tests") -> "test_list"
                       [] TypeOf(message) = Str("run_tests") -> "test_results"
                       [] TypeOf(message) = Str("create_test") -> "test_creation"

\* C4: on one connection every message of a recognized type gets exactly one
\* response, of its own kind, and the response to message n is sent before
\* message n+1 is taken: at most one message is in progress.
C4_InOrder ==
  \A c \in Conns :
    /\ OneFramePerMessage(c)
    /\ taken[c] - nsent[c] \in {0, 1}
    /\ \A e \in Entries(c) : ~Unrecognized(e.msg) => Answers(e.frame, e.msg)

\* C4 witness: two requests waited on one connection, the first is answered
\* and the second, a test run, has its results sent after it.
C4_Witness ==
  \E c \in Conns :
    /\ nsent[c] = 2
    /\ sent[c][1].req = 2
    /\ FrameType(sent[c][1].frame) = "test_results"
    /\ "return_code" \in DOMAIN sent[c][1].frame

\* C5: construction succeeds exactly when cypress, cypress/e2e and
\* cypress/fixtures are directories under the project root, and no method is
\* ever called on an accessor whose construction failed.
C5_ConstructionValidates ==
  LET complete == /\ IsDir(fs, CypressDir)
                  /\ IsDir(fs, E2eDir)
                  /\ IsDir(fs, FixturesDir)
  IN /\ accessor = "ok" => complete
     /\ accessor = "failed" => ~complete
     /\ last.op \in {"list", "write", "run", "running"} => accessor = "ok"

\* the path list_available_tests reports for a name in cypress/e2e
ListedPath(name) == S_cypress \o <<SEP>> \o S_e2e \o <<SEP>> \o name

\* C6: list_available_tests returns exactly the files directly in cypress/e2e
\* whose name ends with .cy.js or .cy.ts, each once; directories are left out.
C6_ListsSpecFiles ==
  (last.op = "list" /\ ~last.out.raised) =>
    LET listed == {last.out.value[i] : i \in 1..Len(last.out.value)}
    IN /\ listed = {ListedPath(n) : n \in {m \in Children(fs, E2eDir) :
                      /\ EndsWith(m, CY_JS) \/ EndsWith(m, CY_TS)
                      /\ IsFile(fs, Append(E2eDir, m))}}
       /\ Len(last.out.value) = Cardinality(listed)

\* C7: for every filename, a successful create_test_file reports the path
\* <root>/cypress/integration/<name'>, name' being the filename itself when it
\* has a spec suffix and the filename plus ".cy.js" when it has not, and the
\* file at that path holds the content.
C7_WritesUnderIntegration ==
  (last.op = "write" /\ ~last.out.raised /\ last.out.value.success) =>
    LET name == last.filename.v
        resolved == IF EndsWith(name, CY_JS) \/ EndsWith(name, CY_TS)
                    THEN name ELSE name \o CY_JS
        expected == projectPath \o <<SEP>> \o S_cypress \o <<SEP>> \o S_integration
                      \o <<SEP>> \o resolved
    IN /\ last.out.value.file_path = expected
       /\ IsFile(fs, Lookup(fs, cwd, expected))
       /\ fs[Lookup(fs, cwd, expected)].content = last.content.v

\* C8: reading the path a successful create_test_file returned yields the
\* content just written; and as long as every create_test_file call has
\* succeeded, each file written holds exactly the content of the latest write
\* to it.
C8_RoundTrip ==
  /\ (last.op = "write" /\ ~last.out.raised /\ last.out.value.success) =>
       LET n == Lookup(fs, cwd, last.out.value.file_path)
       IN IsFile(fs, n) /\ fs[n].content = last.content.v
  /\ writesOk =>
       \A n \in DOMAIN written :
         IsFile(fs, n) /\ fs[n].content = written[n][Len(written[n])]

\* C8 witness: a file was written twice, with different contents, and holds
\* the second.
C8_Witness ==
  /\ writesOk
  /\ last.op = "write"
  /\ \E n \in DOMAIN written :
       /\ Len(written[n]) = 2
       /\ written[n][1] # written[n][2]
       /\ fs[n].content = written[n][2]

\* the filename of a create_test request that names its file
CreateName(message) ==
  IF /\ message.wire = "json"
     /\ message.data.t = "dict"
     /\ TypeOf(message) = Str("create_test")
     /\ IsStr(Get(message.data.v, "filename", Null))
  THEN <<message.data.v.filename.v>>
  ELSE <<>>

\* C9: when the loop takes a create_test request whose file cannot be opened
\* for writing, the handler comes to send a test_creation envelope with
\* success false and the error, the loop goes on, and no file changed.
C9_IoFailureReported ==
  [][\A c \in Conns :
       (/\ taken'[c] = taken[c] + 1
        /\ CreateName(Head(inbox[c])) # <<>>
        /\ ~OpenForWrite(fs, cwd,
              TestFilePath(projectPath, CreateName(Head(inbox[c]))[1])).ok)
       => /\ loop'[c] = "running"
          /\ Len(pending'[c]) = 1
          /\ pending'[c][1].req = taken'[c]
          /\ DOMAIN pending'[c][1].frame = {"type", "success", "error"}
          /\ pending'[c][1].frame.type = "test_creation"
          /\ pending'[c][1].frame.success = FALSE
          /\ pending'[c][1].frame.error \in
               {"FileNotFoundError", "PermissionError", "IsADirectoryError"}
          /\ ~last'.out.raised]_vars

\* C9 witness: with no cypress/integration directory, a create_test request
\* was answered with a failed test_creation envelope.
C9_Witness ==
  \E c \in Conns :
    /\ IntegrationDir \notin DOMAIN fs
    /\ sent[c] # <<>>
    /\ FrameType(sent[c][1].frame) = "test_creation"
    /\ sent[c][1].frame.success = FALSE
    /\ sent[c][1].frame.error = "FileNotFoundError"

\* C10: when the child cannot be started, run_cypress_tests returns
\* {success: false, error} instead of raising, and the request is answered
\* with a test_results envelope carrying these fields.
C10_SpawnFailureReported ==
  (last.op = "run" /\ last.stage = "spawn") =>
    /\ ~last.out.raised
    /\ DOMAIN last.out.value = {"success", "error"}
    /\ last.out.value.success = FALSE
    /\ last.out.value.error \in ExceptionClasses
    /\ LET c == last.conn
           expected == [type |-> "test_results", success |-> FALSE,
                        error |-> last.out.value.error]
       IN /\ \A e \in Entries(c) : e.req = last.req => e.frame = expected
          /\ \/ pending[c] # <<>> /\ pending[c][1].req = last.req
             \/ nsent[c] >= last.req

\* C10 witness: the child could not be started and the failed test_results
\* envelope has been sent.
C10_Witness ==
  /\ last.op = "run" /\ last.stage = "spawn"
  /\ sent[last.conn] # <<>>
  /\ sent[last.conn][1].req = last.req
  /\ FrameType(sent[last.conn][1].frame) = "test_results"
  /\ sent[last.conn][1].frame.error = "FileNotFoundError"

\* C11: the command of a run is npx cypress run --browser <browser> --spec
\* <paths>, where browser is the request's, "chrome" when it names none, and
\* paths is the comma-joined result of a listing, in the listing's order, when
\* the request has no specs or an empty list, and the comma-joined specs of the
\* request, in the request's order, when it has some.
C11_SpecArgument ==
  child.running =>
    LET d == child.msg.data.v
        specs == Get(d, "specs", Null)
        browser == IF "browser" \in DOMAIN d THEN d.browser ELSE Str("chrome")
        listings == {o \in ListAvailableTests(fs, child.cwdBefore, projectPath) : ~o.raised}
    IN /\ Len(child.cmd) = 7
       /\ SubSeq(child.cmd, 1, 4) = <<"npx", "cypress", "run", "--browser">>
       /\ child.cmd[5] = browser
       /\ child.cmd[6] = "--spec"
       /\ IF specs = Null \/ specs = List(<<>>)
          THEN \E o \in listings : child.cmd[7] = StrJoin(<<",">>, o.value)
          ELSE child.cmd[7] = StrJoin(<<",">>, [i \in 1..Len(specs.v) |-> specs.v[i].v])

\* C11 witness: after a spec was added to cypress/e2e, a request without specs
\* and browser runs both specs, the new one first, in chrome.
C11_Witness ==
  /\ child.running
  /\ child.msg = M_run_all
  /\ child.cmd[5] = Str("chrome")
  /\ child.cmd[7] = S_e2e_b \o <<",">> \o S_e2e_a

\* C12: once the child has exited, the result of the run holds the child's
\* captured stdout and stderr and its exit code as return_code, and success is
\* true exactly when the exit code is zero.
C12_ResultCarriesExit ==
  (last.op = "run" /\ "rc" \in DOMAIN last) =>
    /\ ~last.out.raised
    /\ DOMAIN last.out.value = {"success", "stdout", "stderr", "return_code"}
    /\ last.out.value.return_code = last.rc
    /\ last.out.value.success = (last.rc = 0)
    /\ last.out.value.stdout = "out"
    /\ last.out.value.stderr = "err"

\* C13: when the loop takes a list_tests request, whatever was served before,
\* the handler comes to send a test_list envelope whose tests are the spec
\* entries cypress/e2e of the project root holds at that moment, each once.
C13_FreshListing ==
  [][\A c \in Conns :
       (/\ taken'[c] = taken[c] + 1
        /\ Head(inbox[c]) = M_list)
       => /\ Len(pending'[c]) = 1
          /\ pending'[c][1].req = taken'[c]
          /\ DOMAIN pending'[c][1].frame = {"type", "tests"}
          /\ pending'[c][1].frame.type = "test_list"
          /\ LET tests == pending'[c][1].frame.tests
                 now == {ListedPath(n) : n \in {m \in Children(fs, E2eDir) : HasSpecSuffix(m)}}
             IN /\ {tests[i] : i \in 1..Len(tests)} = now
                /\ Len(tests) = Cardinality(now)]_vars

\* C14: the workflow sends run_tests only after it has received the creation
\* response, and once it has received a creation response that reports a
\* file_path it has sent run_tests with that path as specs (and goes on to
\* return the results).
C14_StagesInOrder ==
  /\ workflow.pc \in {"await_results", "returned"} => workflow.recvd >= 1
  /\ (/\ workflow.recvd >= 1
      /\ "file_path" \in DOMAIN workflow.creation_response.json)
     => /\ workflow.pc \in {"await_results", "returned"}
        /\ workflow.specs = <<workflow.creation_response.json.file_path>>

\* C15: construction and a call of list_available_tests leave every file,
\* every directory and the working directory as they are; a step that changes
\* the filesystem is a call of create_test_file.
C15_ReadOnly ==
  [][/\ (accessor = "none" /\ accessor' # "none") => (fs' = fs /\ cwd' = cwd)
     /\ (ncalls' = ncalls + 1 /\ last'.op = "list") => (fs' = fs /\ cwd' = cwd)
     /\ fs' # fs => (ncalls' = ncalls + 1 /\ last'.op = "write")]_vars

\* C15 witness: an accessor was constructed and called twice, the second call
\* a listing of three specs; the filesystem is one of the initial ones and the
\* working directory is the one the process started in.
C15_Witness ==
  /\ accessor = "ok"
  /\ ncalls = 2
  /\ last.op = "list" /\ ~last.out.raised /\ Len(last.out.value) = 3
  /\ fs \in ContentLayouts
  /\ cwd = cwd0

\* C16: whatever runs came before, on whatever connection, a test-runner child
\* process runs in the project root: while it runs, the working directory of
\* the process is the project root.
C16_ChildInRoot ==
  child.running => cwd = Root

\* C17: while a test-runner child runs, no connection's loop takes a message
\* and no frame is sent on any connection, and no second child is started: the
\* only step of the server is the exit of that child.
C17_ServerBlocked ==
  [][child.running =>
       /\ taken' = taken
       /\ nsent' = nsent
       /\ sent' = sent
       /\ fs' = fs
       /\ (child'.running => child' = child)]_vars

\* C17 witness: a child runs for one connection while a request waits on
\* another.
C17_Witness ==
  /\ child.running
  /\ \E c \in Conns : c # child.conn /\ inbox[c] # <<>>

\* a create_test request with a filename and a text content
TextCreate(message) ==
  /\ CreateName(message) # <<>>
  /\ IsStr(Get(message.data.v, "content", Null))

\* the node the file of a create_test request is
CreateNode(message) ==
  Lookup(fs, cwd, TestFilePath(projectPath, CreateName(message)[1]))

\* C18: in a project whose cypress/integration is a writable directory, when
\* two connections have each had a create_test request with text content
\* served and both name the same file, both were answered success true, and
\* the file holds exactly the content of the one served last (the request the
\* latest call of create_test_file was made for).
C18_LastWriteWins ==
  (/\ IsDir(fs, IntegrationDir) /\ fs[IntegrationDir].mode = "rw"
   /\ last.op = "write") =>
    \A e1 \in Entries(last.conn) :
      (e1.req = last.req /\ TextCreate(e1.msg)) =>
        \A c2 \in Conns \ {last.conn} :
          \A e2 \in Entries(c2) :
            (TextCreate(e2.msg) /\ CreateNode(e1.msg) = CreateNode(e2.msg))
            => /\ FrameType(e1.frame) = "test_creation" /\ e1.frame.success
               /\ FrameType(e2.frame) = "test_creation" /\ e2.frame.success
               /\ IsFile(fs, CreateNode(e1.msg))
               /\ fs[CreateNode(e1.msg)].content = e1.msg.data.v.content.v
               /\ fs[CreateNode(e1.msg)].content
                    \in {e1.msg.data.v.content.v, e2.msg.data.v.content.v}

\* C18 witness: two connections were answered success true for the same file,
\* one having sent "X" and the other "Y"; the one with "Y" was served last and
\* the file holds "Y".
C18_Witness ==
  \E c1, c2 \in Conns :
    /\ c1 # c2
    /\ sent[c1] # <<>> /\ sent[c1][1].msg = M_create(Str(S_a), Str("X"))
    /\ sent[c2] # <<>> /\ sent[c2][1].msg = M_create(Str(N_a_cy_js), Str("Y"))
    /\ sent[c1][1].frame.success /\ sent[c2][1].frame.success
    /\ last.op = "write" /\ last.conn = c2
    /\ fs[Append(IntegrationDir, N_a_cy_js)].content = "Y"

\* C19: whatever filenames the create_test requests carried, every file that
\* was created or whose content was changed lies directly in
\* <root>/cypress/integration.
C19_WritesConfined ==
  \A n \in DOMAIN fs :
    (/\ IsFile(fs, n)
     /\ n \notin DOMAIN ServerLayout("dir") \/ fs[n] # ServerLayout("dir")[n])
    => Parent(n) = IntegrationDir

\* C20: when the loop takes a request and the handler comes to send an error
\* envelope or a test_creation envelope with success false, no file was
\* created, truncated or altered.
C20_FailureLeavesFiles ==
  [][\A c \in Conns :
       (/\ taken'[c] = taken[c] + 1
        /\ pending'[c] # <<>>
        /\ \/ IsErrorEnvelope(pending'[c][1].frame)
           \/ /\ FrameType(pending'[c][1].frame) = "test_creation"
              /\ ~pending'[c][1].frame.success)
       => fs' = fs]_vars

====
